---- MODULE Spec2Model ----
(***************************************************************************)
(* Chunk-ownership protocol of the distributed voxel game server.          *)
(*                                                                         *)
(*   game server  : src/unnamed/part_001  (one UDP loop, one datagram at a *)
(*                  time, handlers run to completion on the loop)          *)
(*   central      : src/v5/central_server.go (net/http, one goroutine per  *)
(*                  request, registry `zone`)                              *)
(*   wire types   : src/unnamed/part_000                                   *)
(***************************************************************************)
EXTENDS Integers, Sequences, FiniteSets, TLC

(***************************************************************************)
(* Bounds of the model.                                                    *)
(***************************************************************************)
MaxReq == 3      \* client datagrams sent to game servers in one run
MaxCells == 2    \* longest cells list a chunk is grown to
MaxList == 3     \* longest player_list a chunk is grown to
MaxInject == 1   \* requests from outside the run's processes (OpenSpec)
MaxHttp == 3     \* requests and datagrams central is given (CentralSpec)
MaxSend == 2     \* client requests the game servers are given (ServerSpec)
MaxPeer == 2     \* datagrams from peers and central (ServerSpec)
LongColor == 1030  \* length of the long colour string a client may send

(***************************************************************************)
(* Sizes in the code, in bytes.                                            *)
(***************************************************************************)
CentralReadBuffer == 1024   \* central_server.go:202
ServerReadBuffer == 2048    \* part_001:77
chunkSize == 32             \* player_1.go:41, App.jsx:341

(***************************************************************************)
(* Values.                                                                 *)
(***************************************************************************)
Servers == {"A", "B"}
NoIP == ""
ChunkIDs == {<<0, 0>>, <<1, 0>>}
PlayerIDs == {"p1", "p2"}
CubeIDs == {"k1", "k2"}
Heights == {0}
\* Cube.Color is a string; the model keeps its length, which is all the
\* handlers depend on
Colors == {0, LongColor}

\* central's configured game servers; the third one is not part of a run
serversList == <<"A", "B", "C">>
\* player ids a JOIN carries
JoinIDs == {"1", "2", "p1"}

Cube == [cube_id : CubeIDs, x : {0}, z : {0}, height : Heights, color : Colors]

\* Player: id, position and server; AOIRadius and ChunkID are never read
PlayerAt(id, ip, x, y) == [id |-> id, server_ip |-> ip, pos_x |-> x, pos_y |-> y]
Player(id, ip) == PlayerAt(id, ip, 0, 0)

\* positions a client reports: one in chunk (0,0), one in chunk (1,0)
Positions == {0, 40}

\* the cubes of one column as the frontend builds it: the id names column
\* and height (App.jsx:711-738)
ColumnCube ==
    {[cube_id |-> "k1", x |-> 0, z |-> 0, height |-> 0, color |-> 0],
     [cube_id |-> "k2", x |-> 0, z |-> 0, height |-> 1, color |-> 0]}

ZeroChunk ==
    [id_x |-> 0, id_y |-> 0, server_ip |-> NoIP, data |-> "",
     player_list |-> <<>>, is_dirty |-> FALSE, cells |-> <<>>]

ZeroResponse ==
    [success |-> FALSE, chunk |-> ZeroChunk, message |-> "", new_ip |-> "",
     player_count |-> 0]

Response(success, chunk, message, new_ip, player_count) ==
    [success |-> success, chunk |-> chunk, message |-> message,
     new_ip |-> new_ip, player_count |-> player_count]

\* Go map: lookup with the zero value for a missing key, and assignment.
Has(m, k) == k \in DOMAIN m
Get(m, k) == IF k \in DOMAIN m THEN m[k] ELSE ZeroChunk
Put(m, k, v) == [x \in (DOMAIN m) \cup {k} |-> IF x = k THEN v ELSE m[x]]
Del(m, k) == [x \in (DOMAIN m) \ {k} |-> m[x]]
EmptyMap == <<>>

(***************************************************************************)
(* Variants of the decisions below, against which the properties are       *)
(* tested for sensitivity.                                                 *)
(***************************************************************************)
RegistryThirdValue(caller_ip) == "Z"
DegradedTakesOnAny(caller_load) == caller_load >= 0
ShouldYieldReversed(caller_player_count, my_player_count) ==
    caller_player_count <= my_player_count
NewChunkWithoutPlayer(chunk_id, self, player) ==
    [id_x |-> chunk_id[1], id_y |-> chunk_id[2], server_ip |-> self,
     data |-> "new chunk", player_list |-> <<>>, is_dirty |-> FALSE,
     cells |-> <<>>]
NewChunkUnowned(chunk_id, self, player) ==
    [id_x |-> chunk_id[1], id_y |-> chunk_id[2], server_ip |-> NoIP,
     data |-> "new chunk", player_list |-> <<player>>, is_dirty |-> FALSE,
     cells |-> <<>>]
ServedLocallyByOther(zm, chunk_id, self) ==
    Has(zm, chunk_id) /\ zm[chunk_id].server_ip # self
deleteFromListNoSwap(s, idx) == SubSeq(s, 1, Len(s) - 1)
AddCubeChunkReplace(chunk, cube) ==
    [chunk EXCEPT !.cells = <<cube>>, !.is_dirty = TRUE]

(***************************************************************************)
(* State.                                                                  *)
(***************************************************************************)
VARIABLES
    zone_map,    \* game server: ChunkID -> Chunk                 (part_001:14)
    players,     \* game server: player id -> ChunkID             (part_001:17)
    player_map,  \* game server: player id -> Player              (part_001:18)
    pc,          \* game server: where its single loop is
    ctx,         \* game server: locals of the handler that is blocked
    zone,        \* central: ChunkID -> owner ip         (central_server.go:15)
    cth,         \* central: the handlePeerChunk goroutine serving each caller
    central_up,  \* central process is running
    net,         \* UDP datagrams in flight
    last,        \* the step just taken and the reply it sent
    degraded,    \* chunks on which central took the owner-did-not-reply decision
    nreq,        \* client datagrams sent so far
    ninj         \* requests from outside so far

vars == <<zone_map, players, player_map, pc, ctx, zone, cth, central_up, net,
          last, degraded, nreq, ninj>>

srv == <<zone_map, players, player_map, pc, ctx>>
cen == <<zone, cth, central_up, degraded>>

IdleCtx ==
    [kind |-> "none", chunk_id |-> <<0, 0>>, player |-> Player("", NoIP),
     peer |-> NoIP, have |-> FALSE, res |-> ZeroResponse]

\* HTTP connections to central: one per game server (a server has one request
\* outstanding at most), and one for any other HTTP client.
Outside == "X"
OutsideConns == {"X", "Y"}
Conns == Servers \cup OutsideConns

IdleThread ==
    [st |-> "none", chunk_id |-> <<0, 0>>, caller_ip |-> NoIP,
     player_count |-> 0, owner |-> NoIP, status |-> 0, res |-> ZeroResponse]

\* the step just taken: handler and branch, the process that took it (for
\* a JOIN, the player that asked), the chunk, the reply it sent, and the
\* other server the step names
LastPeer(op, s, c, res, peer) ==
    [op |-> op, s |-> s, c |-> c, res |-> res, peer |-> peer]
Last(op, s, c, res) == LastPeer(op, s, c, res, NoIP)

Init ==
    /\ zone_map = [s \in Servers |-> EmptyMap]
    /\ players = [s \in Servers |-> EmptyMap]
    /\ player_map = [s \in Servers |-> EmptyMap]
    /\ pc = [s \in Servers |-> "idle"]
    /\ ctx = [s \in Servers |-> IdleCtx]
    /\ zone = EmptyMap
    /\ cth = [k \in Conns |-> IdleThread]
    /\ central_up = TRUE
    /\ net = {}
    /\ last = Last("init", NoIP, <<0, 0>>, ZeroResponse)
    /\ degraded = {}
    /\ nreq = 0
    /\ ninj = 0

(***************************************************************************)
(* Game server: pure parts of the handlers.                                *)
(***************************************************************************)

\* deleteFromList: overwrite slot idx with the last element, drop the last.
deleteFromList(s, idx) ==
    [i \in 1..(Len(s) - 1) |-> IF i = idx THEN s[Len(s)] ELSE s[i]]

\* index of the first cell whose id matches, 0 when none (the range loop
\* of handleDltCube breaks at the first match)
FirstCell(cells, cube_id) ==
    IF \E i \in 1..Len(cells) : cells[i].cube_id = cube_id
    THEN CHOOSE i \in 1..Len(cells) :
            /\ cells[i].cube_id = cube_id
            /\ \A j \in 1..(i - 1) : cells[j].cube_id # cube_id
    ELSE 0

\* Bytes the colour strings of a cells list take in its JSON encoding.  The
\* other fields of the values of this model add less than 900 bytes to a
\* datagram, so a datagram is longer than a buffer exactly when its colour
\* strings are.
RECURSIVE ColorBytes(_)
ColorBytes(cells) ==
    IF cells = <<>> THEN 0 ELSE Head(cells).color + ColorBytes(Tail(cells))

\* json.Unmarshal succeeds on what was read into a buffer of `size` bytes:
\* a longer datagram is cut at the buffer's end
Decodes(size, chunk) == ColorBytes(chunk.cells) <= size

\* handleDltCube on the looked-up chunk value
DltCubeChunk(chunk, cube_id) ==
    LET i == FirstCell(chunk.cells, cube_id)
        cells == IF i = 0 THEN chunk.cells ELSE deleteFromList(chunk.cells, i)
    IN [chunk EXCEPT !.cells = cells, !.is_dirty = TRUE]

\* handleAddCube on the looked-up chunk value
AddCubeChunk(chunk, cube) ==
    [chunk EXCEPT !.cells = Append(chunk.cells, cube), !.is_dirty = TRUE]

\* handleMergeChunk: the map after the merge
MergeZoneMap(zm, chunk_id, req_chunk) ==
    IF ~Has(zm, chunk_id)
    THEN Put(zm, chunk_id, req_chunk)
    ELSE Put(zm, chunk_id,
             [zm[chunk_id] EXCEPT
                 !.player_list = zm[chunk_id].player_list \o req_chunk.player_list])

\* handleCentralPeerReq: the owner gives the chunk up
ShouldYield(caller_player_count, my_player_count) ==
    caller_player_count >= my_player_count

\* handleCentralPeerReq, yield branch: the loop over PlayerList assigns to
\* the loop variable, a copy, so the stored players are not changed.
YieldChunk(chunk, caller_ip) ==
    [chunk EXCEPT !.server_ip = caller_ip, !.is_dirty = TRUE]

\* handleGetData: the chunk is served from the local map
ServedLocally(zm, chunk_id, self) ==
    Has(zm, chunk_id) /\ zm[chunk_id].server_ip = self

\* handleGetData, first contact
NewChunk(chunk_id, self, player) ==
    [id_x |-> chunk_id[1], id_y |-> chunk_id[2], server_ip |-> self,
     data |-> "new chunk", player_list |-> <<player>>, is_dirty |-> FALSE,
     cells |-> <<>>]

\* a panic ends the process: its maps are gone and its loop never runs again
Crashed(s) ==
    /\ zone_map' = [zone_map EXCEPT ![s] = EmptyMap]
    /\ players' = [players EXCEPT ![s] = EmptyMap]
    /\ player_map' = [player_map EXCEPT ![s] = EmptyMap]
    /\ pc' = [pc EXCEPT ![s] = "crashed"]
    /\ ctx' = [ctx EXCEPT ![s] = IdleCtx]

(***************************************************************************)
(* Game server: the handlers, one action per datagram taken off the socket *)
(* (main, part_001:77-122).  A handler that blocks (http.Post to central,  *)
(* merge waiting for its ack) keeps the loop, so pc[s] # "idle" means no   *)
(* other datagram is handled by s.                                         *)
(***************************************************************************)

\* ADD_CUBE (handleAddCube)
HandleAddCube(s, c, cube) ==
    /\ pc[s] = "idle"
    /\ nreq < MaxReq
    /\ Len(Get(zone_map[s], c).cells) < MaxCells
    /\ zone_map' = [zone_map EXCEPT
                      ![s] = Put(@, c, AddCubeChunk(Get(zone_map[s], c), cube))]
    /\ last' = Last("ADD_CUBE", s, c, Response(TRUE, ZeroChunk, "Added Cube", "", 0))
    /\ nreq' = nreq + 1
    /\ UNCHANGED <<players, player_map, pc, ctx, cen, net, ninj>>

\* DLT_CUBE (handleDltCube)
HandleDltCube(s, c, cube_id) ==
    /\ pc[s] = "idle"
    /\ nreq < MaxReq
    /\ zone_map' = [zone_map EXCEPT
                      ![s] = Put(@, c, DltCubeChunk(Get(zone_map[s], c), cube_id))]
    /\ last' = Last("DLT_CUBE", s, c, Response(TRUE, ZeroChunk, "Deleted Cube", "", 0))
    /\ nreq' = nreq + 1
    /\ UNCHANGED <<players, player_map, pc, ctx, cen, net, ninj>>

\* the chunk the requests of the gateway and of the outside are about
OpenChunkIDs == {<<0, 0>>}

\* the game server a gateway forwards its requests to
gameServerUDP == "A"

\* MOVE_PLAYER (handleMovePlayer): the request's chunk id and player are
\* stored as they come.  The gateway fills in id and position only.
HandleMovePlayer(s, p, x, y, c) ==
    /\ pc[s] = "idle"
    /\ players' = [players EXCEPT ![s] = Put(@, p, c)]
    /\ player_map' = [player_map EXCEPT ![s] = Put(@, p, PlayerAt(p, NoIP, x, y))]
    /\ nreq' = nreq + 1
    /\ last' = Last("MOVE_PLAYER", s, c,
                    Response(TRUE, ZeroChunk, "Player position updated", "", 0))
    /\ UNCHANGED <<zone_map, pc, ctx, cen, net, ninj>>

\* DLT_PLAYER (handleDeletePlayer)
HandleDeletePlayer(s, p) ==
    /\ pc[s] = "idle"
    /\ players' = [players EXCEPT ![s] = Del(@, p)]
    /\ player_map' = [player_map EXCEPT ![s] = Del(@, p)]
    /\ nreq' = nreq + 1
    /\ last' = Last("DLT_PLAYER", s, <<0, 0>>,
                    Response(TRUE, ZeroChunk, "Player deleted", "", 0))
    /\ UNCHANGED <<zone_map, pc, ctx, cen, net, ninj>>

\* the chunks an UPDATE_DATA datagram carries: one naming each game server
\* as owner, without players or cells
UpdateChunks == {[ZeroChunk EXCEPT !.server_ip = ip] : ip \in Servers}

\* UPDATE_DATA (handleUpdateData): the request's chunk is stored over the
\* entry, whatever was there and whoever sent it.  No client of the
\* repository sends this type; the socket takes it from any sender.
HandleUpdateData(s, c, chunk) ==
    /\ pc[s] = "idle"
    /\ zone_map' = [zone_map EXCEPT ![s] = Put(@, c, chunk)]
    /\ nreq' = nreq + 1
    /\ last' = Last("UPDATE_DATA", s, c,
                    Response(TRUE, ZeroChunk, "Chunk data updated", "", 0))
    /\ UNCHANGED <<players, player_map, pc, ctx, cen, net, ninj>>

\* MERGE (main, then handleMergeChunk).  The ack goes back to the socket
\* merge() reads from, which exists only while the sender is still inside
\* merge().  A datagram longer than the loop's buffer does not decode.
HandleMergeChunk(s, m) ==
    /\ pc[s] = "idle"
    /\ m \in net
    /\ m.type = "MERGE"
    /\ m.to = s
    /\ IF Decodes(ServerReadBuffer, m.chunk)
       THEN /\ Len(Get(zone_map[s], m.chunk_id).player_list)
                  + Len(m.chunk.player_list) <= MaxList
            /\ zone_map' = [zone_map EXCEPT
                              ![s] = MergeZoneMap(@, m.chunk_id, m.chunk)]
            /\ net' = (net \ {m}) \cup
                      IF /\ m.from \in Servers
                         /\ pc[m.from] = "merge"
                         /\ ctx[m.from].peer = s
                      THEN {[type |-> "MERGE_ACK", to |-> m.from]}
                      ELSE {}
            /\ last' = Last("MERGE", s, m.chunk_id,
                            Response(TRUE, ZeroChunk, "Merged Chunk", "", 0))
       ELSE \* main, part_001:86-90: "Invalid data", no reply
            /\ net' = net \ {m}
            /\ last' = Last("INVALID_DATA", s, m.chunk_id, ZeroResponse)
            /\ UNCHANGED zone_map
    /\ UNCHANGED <<players, player_map, pc, ctx, cen, nreq, ninj>>

\* merge(): the request datagram a handler sends before it waits for the ack
MergeDatagram(from, to, chunk_id, chunk) ==
    [type |-> "MERGE", to |-> to, from |-> from, chunk_id |-> chunk_id,
     chunk |-> chunk]

\* the owner's reply to central reaches central's socket only while central
\* still holds the connection it sent FROM_CENTRAL on
PeerReply(from, res) ==
    IF \E k \in Conns : cth[k].st = "peer" /\ cth[k].owner = from
    THEN {[type |-> "PEER_REPLY", from |-> from, res |-> res]}
    ELSE {}

\* FROM_CENTRAL (handleCentralPeerReq)
HandleCentralPeerReq(s, m) ==
    /\ pc[s] = "idle"
    /\ m \in net
    /\ m.type = "FROM_CENTRAL"
    /\ m.to = s
    /\ LET chunk_id == m.chunk_id
           chunk == Get(zone_map[s], chunk_id)
           my_player_count == Len(chunk.player_list)
       IN IF ShouldYield(m.player_count, my_player_count)
          THEN LET yielded == YieldChunk(chunk, m.caller_ip)
                   res == Response(TRUE, yielded, "", "", my_player_count)
               IN /\ zone_map' = [zone_map EXCEPT ![s] = Put(@, chunk_id, yielded)]
                  /\ net' = (net \ {m}) \cup
                            {MergeDatagram(s, m.caller_ip, chunk_id, yielded)}
                  /\ pc' = [pc EXCEPT ![s] = "merge"]
                  /\ ctx' = [ctx EXCEPT ![s] =
                               [kind |-> "from_central", chunk_id |-> chunk_id,
                                player |-> Player("", NoIP), peer |-> m.caller_ip,
                                have |-> Has(zone_map[s], chunk_id), res |-> res]]
                  /\ last' = LastPeer("FROM_CENTRAL_YIELD", s, chunk_id, ZeroResponse,
                                      m.caller_ip)
          ELSE LET res == Response(TRUE, chunk, "", "", my_player_count)
               IN /\ net' = (net \ {m}) \cup PeerReply(s, res)
                  /\ last' = LastPeer("FROM_CENTRAL_KEEP", s, chunk_id, res,
                                      m.caller_ip)
                  /\ UNCHANGED <<zone_map, pc, ctx>>
    /\ UNCHANGED <<players, player_map, cen, nreq, ninj>>

\* GET_DATA (handleGetData) up to the reply or to http.Post
HandleGetData(s, p, c) ==
    /\ pc[s] = "idle"
    /\ nreq < MaxReq
    /\ nreq' = nreq + 1
    /\ LET player == Player(p, s)
           val == Get(zone_map[s], c)
           player_count == IF Has(zone_map[s], c) THEN Len(val.player_list) ELSE 0
       IN IF ServedLocally(zone_map[s], c, s)
          THEN /\ players' = [players EXCEPT ![s] = Put(@, p, c)]
               /\ last' = Last("GET_DATA", s, c, Response(TRUE, val, s, "", 0))
               /\ UNCHANGED <<zone_map, player_map, pc, ctx, cth>>
          ELSE IF central_up
          THEN /\ pc' = [pc EXCEPT ![s] = "central"]
               /\ ctx' = [ctx EXCEPT ![s] =
                            [kind |-> "get_data", chunk_id |-> c, player |-> player,
                             peer |-> NoIP, have |-> Has(zone_map[s], c),
                             res |-> ZeroResponse]]
               /\ cth' = [cth EXCEPT ![s] =
                            [st |-> "lookup", chunk_id |-> c, caller_ip |-> s,
                             player_count |-> player_count, owner |-> NoIP,
                             status |-> 0, res |-> ZeroResponse]]
               /\ last' = Last("GET_DATA_MISS", s, c, ZeroResponse)
               /\ UNCHANGED <<zone_map, players, player_map>>
          ELSE \* http.Post fails, httpResp is nil, httpResp.Body panics
               /\ Crashed(s)
               /\ last' = Last("GET_DATA_PANIC", s, c, ZeroResponse)
               /\ UNCHANGED cth
    /\ UNCHANGED <<zone, central_up, degraded, net, ninj>>

\* handleGetData from the HTTP response on (part_001:342-398).  A response
\* whose body is not a Response (central's http.Error text) leaves
\* central_response at its zero value.
GetDataResume(s) ==
    /\ pc[s] = "central"
    /\ cth[s].st = "done"
    /\ cth' = [cth EXCEPT ![s] = IdleThread]
    /\ LET central_response == IF cth[s].status = 200 THEN cth[s].res ELSE ZeroResponse
           chunk_id == ctx[s].chunk_id
           player == ctx[s].player
           ok == Has(zone_map[s], chunk_id)
           val == Get(zone_map[s], chunk_id)
           owner == central_response.message
       IN IF ~central_response.success
          THEN LET new_chunk == NewChunk(chunk_id, s, player)
               IN /\ players' = [players EXCEPT ![s] = Put(@, player.id, chunk_id)]
                  /\ player_map' = [player_map EXCEPT ![s] = Put(@, player.id, player)]
                  /\ zone_map' = [zone_map EXCEPT ![s] = Put(@, chunk_id, new_chunk)]
                  /\ pc' = [pc EXCEPT ![s] = "idle"]
                  /\ ctx' = [ctx EXCEPT ![s] = IdleCtx]
                  /\ last' = Last("GET_DATA_NEW", s, chunk_id,
                                  Response(TRUE, new_chunk, s, "", 0))
                  /\ UNCHANGED net
          ELSE IF owner # s
          THEN LET sent == IF ok
                           THEN [val EXCEPT !.server_ip = owner, !.is_dirty = TRUE]
                           ELSE [ZeroChunk EXCEPT !.player_list = <<player>>]
               IN /\ zone_map' = IF ok
                                 THEN [zone_map EXCEPT ![s] = Put(@, chunk_id, sent)]
                                 ELSE zone_map
                  /\ net' = net \cup {MergeDatagram(s, owner, chunk_id, sent)}
                  /\ pc' = [pc EXCEPT ![s] = "merge"]
                  /\ ctx' = [ctx EXCEPT ![s] =
                               [kind |-> "get_data", chunk_id |-> chunk_id,
                                player |-> player, peer |-> owner, have |-> ok,
                                res |-> Response(TRUE, ZeroChunk, owner, "", 0)]]
                  /\ last' = LastPeer("GET_DATA_MERGE", s, chunk_id, ZeroResponse,
                                      owner)
                  /\ UNCHANGED <<players, player_map>>
          ELSE LET updated_chunk ==
                       IF ok THEN val
                       ELSE [central_response.chunk EXCEPT
                               !.player_list = Append(@, player)]
                   res == Response(TRUE, updated_chunk, owner, "", 0)
               IN /\ Len(updated_chunk.player_list) <= MaxList
                  /\ zone_map' = [zone_map EXCEPT ![s] = Put(@, chunk_id, res.chunk)]
                  /\ pc' = [pc EXCEPT ![s] = "idle"]
                  /\ ctx' = [ctx EXCEPT ![s] = IdleCtx]
                  /\ last' = Last("GET_DATA_OWNER", s, chunk_id, res)
                  /\ UNCHANGED <<players, player_map, net>>
    /\ UNCHANGED <<zone, central_up, degraded, nreq, ninj>>

\* merge() returns the ack: the blocked handler goes on to its reply
MergeAck(s) ==
    /\ pc[s] = "merge"
    /\ [type |-> "MERGE_ACK", to |-> s] \in net
    /\ pc' = [pc EXCEPT ![s] = "idle"]
    /\ ctx' = [ctx EXCEPT ![s] = IdleCtx]
    /\ IF ctx[s].kind = "get_data"
       THEN \* part_001:379/386 then 396: zone_map[chunk_id] = res.Chunk
            /\ zone_map' = [zone_map EXCEPT
                              ![s] = Put(@, ctx[s].chunk_id, ctx[s].res.chunk)]
            /\ net' = net \ {[type |-> "MERGE_ACK", to |-> s]}
            /\ last' = LastPeer(IF ctx[s].have THEN "GET_DATA_MOVED"
                                ELSE "GET_DATA_REDIRECT",
                                s, ctx[s].chunk_id, ctx[s].res, ctx[s].peer)
       ELSE \* part_001:303
            /\ net' = (net \ {[type |-> "MERGE_ACK", to |-> s]})
                         \cup PeerReply(s, ctx[s].res)
            /\ last' = LastPeer("FROM_CENTRAL_YIELDED", s, ctx[s].chunk_id, ctx[s].res,
                                ctx[s].peer)
            /\ UNCHANGED zone_map
    /\ UNCHANGED <<players, player_map, cen, nreq, ninj>>

\* merge() returns (nil, err) at its 2 s deadline; the caller then reads
\* merge_res.Message through the nil pointer (part_001:290, 378, 385)
MergeTimeout(s) ==
    /\ pc[s] = "merge"
    /\ Crashed(s)
    /\ net' = net \ {[type |-> "MERGE_ACK", to |-> s]}
    /\ last' = Last("MERGE_TIMEOUT_PANIC", s, ctx[s].chunk_id, ZeroResponse)
    /\ UNCHANGED <<cen, nreq, ninj>>

\* http.Post returns an error when central is gone: httpResp is nil and
\* httpResp.Body panics (part_001:341-343)
GetDataCentralDown(s) ==
    /\ pc[s] = "central"
    /\ ~central_up
    /\ Crashed(s)
    /\ last' = Last("GET_DATA_PANIC", s, ctx[s].chunk_id, ZeroResponse)
    /\ UNCHANGED <<cen, net, nreq, ninj>>

(***************************************************************************)
(* Central: handlePeerChunk, one goroutine per HTTP request.  The handler  *)
(* never takes zoneMu, so its read of zone (line 148) and its writes       *)
(* (lines 152, 211, 226, 242) are separate steps of concurrent goroutines. *)
(***************************************************************************)

\* central moves the chunk to the caller
ShouldTransfer(callee_load, caller_load) == callee_load < caller_load

\* the decision when no usable reply came from the owner (lines 206-233)
DegradedTakes(caller_load) == caller_load > 0

\* what handlePeerChunk stores in zone
RegistryValue(caller_ip) == caller_ip

\* the reply of the branch that found no entry (line 151)
NoPriorOwnerReply == Response(FALSE, ZeroChunk, "", "", 0)

FromCentral(owner, chunk_id, caller_ip, caller_load) ==
    [type |-> "FROM_CENTRAL", to |-> owner, chunk_id |-> chunk_id,
     caller_ip |-> caller_ip, player_count |-> caller_load]

\* line 148: read the registry; absent -> go on to line 151; present ->
\* keep the owner that was read and go on to the dial
PeerChunkLookup(k) ==
    /\ central_up
    /\ cth[k].st = "lookup"
    /\ LET chunk_id == cth[k].chunk_id
       IN IF ~Has(zone, chunk_id)
          THEN cth' = [cth EXCEPT ![k].st = "absent"]
          ELSE cth' = [cth EXCEPT ![k].st = "found", ![k].owner = zone[chunk_id]]
    /\ last' = Last("PEER_CHUNK_LOOKUP", cth[k].caller_ip, cth[k].chunk_id, ZeroResponse)
    /\ UNCHANGED <<srv, zone, central_up, degraded, net, nreq, ninj>>

\* lines 158-200: dial the owner that was read from the fixed local address
\* 172.16.118.72:8080 (the bind fails while another goroutine's socket
\* holds it, which it does until its handler returns) and send
\* FROM_CENTRAL.  The registry may have been rewritten since line 148.
PeerChunkDial(k) ==
    /\ central_up
    /\ cth[k].st = "found"
    /\ IF \E j \in Conns : cth[j].st \in {"peer", "decided"}
       THEN /\ cth' = [cth EXCEPT ![k].st = "done", ![k].status = 500]
            /\ UNCHANGED net
       ELSE /\ cth' = [cth EXCEPT ![k].st = "peer"]
            /\ net' = net \cup {FromCentral(cth[k].owner, cth[k].chunk_id,
                                            cth[k].caller_ip, cth[k].player_count)}
    /\ last' = Last("PEER_CHUNK_DIAL", cth[k].caller_ip, cth[k].chunk_id, ZeroResponse)
    /\ UNCHANGED <<srv, zone, central_up, degraded, nreq, ninj>>

\* lines 151-153: no prior owner; the entry is written and the reply is
\* encoded into the response buffer, which net/http sends when the handler
\* returns
PeerChunkInstall(k) ==
    /\ central_up
    /\ cth[k].st = "absent"
    /\ zone' = Put(zone, cth[k].chunk_id, RegistryValue(cth[k].caller_ip))
    /\ cth' = [cth EXCEPT ![k].st = "installed", ![k].status = 200,
                          ![k].res = NoPriorOwnerReply]
    /\ last' = Last("PEER_CHUNK_NEW", cth[k].caller_ip, cth[k].chunk_id,
                    NoPriorOwnerReply)
    /\ UNCHANGED <<srv, central_up, degraded, net, nreq, ninj>>

\* lines 202-205, 220-247: the owner's reply is read into the 1024-byte
\* buffer; what does not decode takes the fallback of lines 221-233 and
\* returns, what decodes is decided at lines 241-246 and goes on to the
\* prints of the map
PeerChunkReply(k, m) ==
    /\ central_up
    /\ cth[k].st = "peer"
    /\ m \in net
    /\ m.type = "PEER_REPLY"
    /\ m.from = cth[k].owner
    /\ LET chunk_id == cth[k].chunk_id
           caller_ip == cth[k].caller_ip
           owner == cth[k].owner
           decoded == Decodes(CentralReadBuffer, m.res.chunk)
           takes == IF decoded
                    THEN ShouldTransfer(m.res.player_count, cth[k].player_count)
                    ELSE DegradedTakes(cth[k].player_count)
           final_res ==
               IF takes
               THEN Response(TRUE, IF decoded THEN m.res.chunk ELSE ZeroChunk,
                             caller_ip, caller_ip, 0)
               ELSE Response(TRUE, ZeroChunk, owner, owner, 0)
       IN /\ zone' = IF takes
                     THEN Put(zone, chunk_id, RegistryValue(caller_ip))
                     ELSE zone
          /\ cth' = [cth EXCEPT ![k].st = IF decoded THEN "decided" ELSE "done",
                                ![k].status = 200,
                                ![k].res = final_res]
          /\ last' = Last(IF decoded THEN "PEER_CHUNK_REPLY"
                          ELSE "PEER_CHUNK_FALLBACK",
                          caller_ip, chunk_id, final_res)
    /\ net' = net \ {m}
    /\ UNCHANGED <<srv, central_up, degraded, nreq, ninj>>

\* lines 205-218: nothing was read before the 3 s deadline
PeerChunkTimeout(k) ==
    /\ central_up
    /\ cth[k].st = "peer"
    /\ LET chunk_id == cth[k].chunk_id
           caller_ip == cth[k].caller_ip
           owner == cth[k].owner
           final_res ==
               IF DegradedTakes(cth[k].player_count)
               THEN Response(TRUE, ZeroChunk, caller_ip, caller_ip, 0)
               ELSE Response(TRUE, ZeroChunk, owner, owner, 0)
       IN /\ zone' = IF DegradedTakes(cth[k].player_count)
                     THEN Put(zone, chunk_id, RegistryValue(caller_ip))
                     ELSE zone
          /\ cth' = [cth EXCEPT ![k].st = "done", ![k].status = 200,
                                ![k].res = final_res]
          /\ degraded' = degraded \cup {chunk_id}
          /\ last' = Last("PEER_CHUNK_DEGRADED", caller_ip, chunk_id, final_res)
    /\ UNCHANGED <<srv, central_up, net, nreq, ninj>>

\* lines 154-155 and 248-253: the map is printed (an iteration over it), and
\* the handler returns: the response is sent and the socket closed
PeerChunkReturn(k) ==
    /\ central_up
    /\ cth[k].st \in {"installed", "decided"}
    /\ cth' = [cth EXCEPT ![k].st = "done"]
    /\ last' = Last("PEER_CHUNK_RETURN", cth[k].caller_ip, cth[k].chunk_id,
                    cth[k].res)
    /\ UNCHANGED <<srv, zone, central_up, degraded, net, nreq, ninj>>

\* goroutine k is about to write the map: line 152, line 104 of
\* handleSentChunk, or one of lines 211, 226 and 242, which a goroutine
\* waiting for the owner reaches when its caller_load is above 0 (the read
\* deadline can always pass)
ZoneWriter(k) ==
    \/ cth[k].st \in {"absent", "sentchunk"}
    \/ cth[k].st = "peer" /\ cth[k].player_count > 0

\* goroutine k is about to read the map: the lookup of line 148, or the map
\* printed at line 154 after the entry was written and at lines 248 and 253
\* once a reply that decodes was read
ZoneReader(k) ==
    \/ cth[k].st \in {"lookup", "installed", "decided"}
    \/ /\ cth[k].st = "peer"
       /\ \E m \in net : /\ m.type = "PEER_REPLY"
                          /\ m.from = cth[k].owner
                          /\ Decodes(CentralReadBuffer, m.res.chunk)

\* two goroutines in the unguarded map at once, one of them writing: the Go
\* runtime may end the process ("concurrent map writes", "concurrent map
\* read and map write")
CentralFatal ==
    /\ central_up
    /\ \E j, k \in Conns :
          /\ j # k
          /\ ZoneWriter(j)
          /\ ZoneWriter(k) \/ ZoneReader(k)
    /\ central_up' = FALSE
    /\ cth' = [k \in Conns |-> IdleThread]
    /\ last' = Last("CENTRAL_FATAL", NoIP, <<0, 0>>, ZeroResponse)
    /\ UNCHANGED <<srv, zone, degraded, net, nreq, ninj>>

(***************************************************************************)
(* The system: game servers, central, and the senders of GET_DATA,         *)
(* ADD_CUBE, DLT_CUBE, MOVE_PLAYER, DLT_PLAYER and UPDATE_DATA datagrams.  *)
(***************************************************************************)
Next ==
    \/ \E s \in Servers, p \in PlayerIDs, c \in ChunkIDs : HandleGetData(s, p, c)
    \/ \E s \in Servers, c \in OpenChunkIDs, cube \in Cube : HandleAddCube(s, c, cube)
    \/ \E s \in Servers, c \in OpenChunkIDs, id \in CubeIDs : HandleDltCube(s, c, id)
    \/ \E c \in OpenChunkIDs :
          nreq < MaxReq /\ HandleMovePlayer(gameServerUDP, "p1", 0, 0, c)
    \/ nreq < MaxReq /\ HandleDeletePlayer(gameServerUDP, "p1")
    \/ \E s \in Servers, c \in OpenChunkIDs, ch \in UpdateChunks :
          nreq < MaxReq /\ HandleUpdateData(s, c, ch)
    \/ \E s \in Servers, m \in net : HandleMergeChunk(s, m)
    \/ \E s \in Servers, m \in net : HandleCentralPeerReq(s, m)
    \/ \E s \in Servers : GetDataResume(s)
    \/ \E s \in Servers : MergeAck(s)
    \/ \E s \in Servers : MergeTimeout(s)
    \/ \E s \in Servers : GetDataCentralDown(s)
    \/ \E k \in Conns : PeerChunkLookup(k)
    \/ \E k \in Conns : PeerChunkDial(k)
    \/ \E k \in Conns : PeerChunkInstall(k)
    \/ \E k \in Conns : PeerChunkReturn(k)
    \/ \E k \in Conns, m \in net : PeerChunkReply(k, m)
    \/ \E k \in Conns : PeerChunkTimeout(k)
    \/ CentralFatal

Spec == Init /\ [][Next]_vars

(***************************************************************************)
(* The open system.  Central serves any HTTP client, so POST /chunk is also *)
(* issued from outside the two game servers (a game server contacting      *)
(* central with a player count of its choosing).  Clients and the outside  *)
(* send a request only when nothing is in progress.                        *)
(***************************************************************************)
OutsideChunk ==
    {[ZeroChunk EXCEPT !.player_list = pl, !.cells = cells] :
        pl \in {<<Player("p1", "A")>>, <<Player("p1", "A"), Player("p2", "B")>>},
        cells \in {<<>>, <<[cube_id |-> "k1", x |-> 0, z |-> 0, height |-> 0,
                           color |-> LongColor]>>}}

\* a datagram from the owner's address arrives on the socket central reads
\* (without that socket the host drops it)
InjectPeerReply(from, n, ch) ==
    /\ PeerReply(from, Response(TRUE, ch, "", "", n)) # {}
    /\ PeerReply(from, Response(TRUE, ch, "", "", n)) \cap net = {}
    /\ net' = net \cup PeerReply(from, Response(TRUE, ch, "", "", n))
    /\ ninj' = ninj + 1
    /\ last' = Last("PEER_REPLY_ARRIVES", from, <<0, 0>>, ZeroResponse)
    /\ UNCHANGED <<srv, cen, nreq>>

\* POST /chunk on connection k from an HTTP client outside the run
PostChunk(k, c, caller_ip, n) ==
    /\ central_up
    /\ cth[k].st = "none"
    /\ cth' = [cth EXCEPT ![k] =
                 [st |-> "lookup", chunk_id |-> c, caller_ip |-> caller_ip,
                  player_count |-> n, owner |-> NoIP, status |-> 0,
                  res |-> ZeroResponse]]
    /\ ninj' = ninj + 1
    /\ last' = Last("POST_CHUNK", caller_ip, c, ZeroResponse)
    /\ UNCHANGED <<srv, zone, central_up, degraded, net, nreq>>

\* that client reads its response
PostChunkDone(k) ==
    /\ k \in OutsideConns
    /\ cth[k].st = "done"
    /\ cth' = [cth EXCEPT ![k] = IdleThread]
    /\ last' = Last("POST_CHUNK_DONE", cth[k].caller_ip, cth[k].chunk_id, cth[k].res)
    /\ UNCHANGED <<srv, zone, central_up, degraded, net, nreq, ninj>>

\* POST /sentchunk on connection k from an HTTP client outside the run:
\* net/http starts a goroutine of handleSentChunk, which decodes the request
\* (central_server.go:90-102)
PostSentChunk(k, c, caller_ip) ==
    /\ central_up
    /\ cth[k].st = "none"
    /\ cth' = [cth EXCEPT ![k] =
                 [st |-> "sentchunk", chunk_id |-> c, caller_ip |-> caller_ip,
                  player_count |-> 0, owner |-> NoIP, status |-> 0,
                  res |-> ZeroResponse]]
    /\ ninj' = ninj + 1
    /\ last' = Last("POST_SENT_CHUNK", caller_ip, c, ZeroResponse)
    /\ UNCHANGED <<srv, zone, central_up, degraded, net, nreq>>

\* handleSentChunk, line 104: the unguarded write, then the empty reply
HandleSentChunk(k) ==
    /\ central_up
    /\ cth[k].st = "sentchunk"
    /\ zone' = Put(zone, cth[k].chunk_id, RegistryValue(cth[k].caller_ip))
    /\ cth' = [cth EXCEPT ![k] = IdleThread]
    /\ last' = Last("SENT_CHUNK", cth[k].caller_ip, cth[k].chunk_id, ZeroResponse)
    /\ UNCHANGED <<srv, central_up, degraded, net, nreq, ninj>>

\* a variant of randomServer that hands out the servers in turn
randomServerInTurn(id) == serversList[(ninj % Len(serversList)) + 1]

\* randomServer: ids "1" and "2" get the first and second server of the
\* list, every other id the third
randomServer(id) ==
    LET key == IF id = "1" THEN 1 ELSE IF id = "2" THEN 2 ELSE 3
    IN serversList[key]

\* POST /join (handleJoin)
HandleJoin(id) ==
    /\ central_up
    /\ ninj' = ninj + 1
    /\ last' = Last("JOIN", id, <<0, 0>>,
                    Response(TRUE, ZeroChunk, randomServer(id), "", 0))
    /\ UNCHANGED <<srv, cen, net, nreq>>

\* a datagram a running game server will take off its socket
Deliverable(m) ==
    /\ m.type \in {"MERGE", "FROM_CENTRAL"}
    /\ pc[m.to] # "crashed"
    /\ m.type = "MERGE" =>
          \/ ~Decodes(ServerReadBuffer, m.chunk)
          \/ Len(Get(zone_map[m.to], m.chunk_id).player_list)
                + Len(m.chunk.player_list) <= MaxList

\* nothing is in progress
Quiet ==
    /\ \A s \in Servers : pc[s] \in {"idle", "crashed"}
    /\ \A k \in Conns : cth[k].st = "none"
    /\ \A m \in net : ~Deliverable(m)

OpenNext ==
    \/ \E s \in Servers, p \in PlayerIDs, c \in OpenChunkIDs :
          Quiet /\ HandleGetData(s, p, c)
    \/ \E s \in Servers, c \in OpenChunkIDs, cube \in Cube :
          Quiet /\ HandleAddCube(s, c, cube)
    \/ \E s \in Servers, c \in OpenChunkIDs, id \in CubeIDs :
          Quiet /\ HandleDltCube(s, c, id)
    \/ \E x \in Positions, c \in ChunkIDs :
          Quiet /\ nreq < MaxReq /\ HandleMovePlayer(gameServerUDP, "p1", x, 0, c)
    \/ Quiet /\ nreq < MaxReq /\ HandleDeletePlayer(gameServerUDP, "p1")
    \/ \E s \in Servers, c \in OpenChunkIDs, ch \in UpdateChunks :
          Quiet /\ nreq < MaxReq /\ HandleUpdateData(s, c, ch)
    \/ \E s \in Servers, m \in net : HandleMergeChunk(s, m)
    \/ \E s \in Servers, m \in net : HandleCentralPeerReq(s, m)
    \/ \E s \in Servers : GetDataResume(s)
    \/ \E s \in Servers : MergeAck(s)
    \/ \E s \in Servers : MergeTimeout(s)
    \/ \E k \in Conns : PeerChunkLookup(k)
    \/ \E k \in Conns : PeerChunkDial(k)
    \/ \E k \in Conns : PeerChunkInstall(k)
    \/ \E k \in Conns : PeerChunkReturn(k)
    \/ \E k \in Conns, m \in net : PeerChunkReply(k, m)
    \/ \E k \in Conns : PeerChunkTimeout(k)
    \/ \E c \in OpenChunkIDs, ip \in Servers, n \in 0..2 :
          Quiet /\ ninj < MaxInject /\ PostChunk(Outside, c, ip, n)
    \/ PostChunkDone(Outside)

OpenSpec == Init /\ [][OpenNext]_vars

(***************************************************************************)
(* Central alone: its HTTP requests and the datagrams on its UDP socket    *)
(* come from outside.                                                      *)
(***************************************************************************)
CentralNext ==
    \/ \E k \in OutsideConns, c \in ChunkIDs, ip \in Servers, n \in 0..1 :
          ninj < MaxHttp /\ PostChunk(k, c, ip, n)
    \/ \E k \in OutsideConns : PostChunkDone(k)
    \/ \E k \in OutsideConns, c \in ChunkIDs, ip \in Servers :
          ninj < MaxHttp /\ PostSentChunk(k, c, ip)
    \/ \E k \in Conns : HandleSentChunk(k)
    \/ \E s \in Servers, n \in 0..2, ch \in OutsideChunk :
          ninj < MaxHttp /\ InjectPeerReply(s, n, ch)
    \/ \E id \in JoinIDs : ninj < MaxHttp /\ HandleJoin(id)
    \/ \E k \in Conns : PeerChunkLookup(k)
    \/ \E k \in Conns : PeerChunkDial(k)
    \/ \E k \in Conns : PeerChunkInstall(k)
    \/ \E k \in Conns : PeerChunkReturn(k)
    \/ \E k \in Conns, m \in net : PeerChunkReply(k, m)
    \/ \E k \in Conns : PeerChunkTimeout(k)
    \/ CentralFatal

CentralSpec == Init /\ [][CentralNext]_vars

(***************************************************************************)
(* The game servers alone.  Client requests reach a server as datagrams    *)
(* that wait on its socket until the loop takes them; MERGE and            *)
(* FROM_CENTRAL datagrams come from outside (another game server's         *)
(* merge(), central's handlePeerChunk).                                    *)
(***************************************************************************)

\* the gateway sends ADD_CUBE (handleAddCubeHTTP, sendUDPRequest)
HandleAddCubeHTTP(s, c, cube) ==
    /\ nreq < MaxSend
    /\ [type |-> "ADD_CUBE", to |-> s, chunk_id |-> c, cube |-> cube] \notin net
    /\ net' = net \cup {[type |-> "ADD_CUBE", to |-> s, chunk_id |-> c,
                         cube |-> cube]}
    /\ nreq' = nreq + 1
    /\ last' = Last("ADD_CUBE_SENT", s, c, ZeroResponse)
    /\ UNCHANGED <<srv, cen, ninj>>

\* the gateway sends DLT_CUBE (handleDltCubeHTTP, sendUDPRequest)
HandleDltCubeHTTP(s, c, cube_id) ==
    /\ nreq < MaxSend
    /\ [type |-> "DLT_CUBE", to |-> s, chunk_id |-> c, cube_id |-> cube_id]
          \notin net
    /\ net' = net \cup {[type |-> "DLT_CUBE", to |-> s, chunk_id |-> c,
                         cube_id |-> cube_id]}
    /\ nreq' = nreq + 1
    /\ last' = Last("DLT_CUBE_SENT", s, c, ZeroResponse)
    /\ UNCHANGED <<srv, cen, ninj>>

\* main takes an ADD_CUBE datagram off the socket and runs handleAddCube
MainAddCube(s, m) ==
    /\ pc[s] = "idle"
    /\ m \in net
    /\ m.type = "ADD_CUBE"
    /\ m.to = s
    /\ zone_map' = [zone_map EXCEPT
                      ![s] = Put(@, m.chunk_id,
                                 AddCubeChunk(Get(zone_map[s], m.chunk_id), m.cube))]
    /\ net' = net \ {m}
    /\ last' = Last("ADD_CUBE", s, m.chunk_id,
                    Response(TRUE, ZeroChunk, "Added Cube", "", 0))
    /\ UNCHANGED <<players, player_map, pc, ctx, cen, nreq, ninj>>

\* main takes a DLT_CUBE datagram off the socket and runs handleDltCube
MainDltCube(s, m) ==
    /\ pc[s] = "idle"
    /\ m \in net
    /\ m.type = "DLT_CUBE"
    /\ m.to = s
    /\ zone_map' = [zone_map EXCEPT
                      ![s] = Put(@, m.chunk_id,
                                 DltCubeChunk(Get(zone_map[s], m.chunk_id), m.cube_id))]
    /\ net' = net \ {m}
    /\ last' = Last("DLT_CUBE", s, m.chunk_id,
                    Response(TRUE, ZeroChunk, "Deleted Cube", "", 0))
    /\ UNCHANGED <<players, player_map, pc, ctx, cen, nreq, ninj>>

\* the chunks another game server sends in a MERGE to s: the one-player
\* chunk of a redirected GET_DATA (part_001:381-385) and a chunk yielded to
\* s (part_001:280-289)
PeerChunks(s) ==
    {[ZeroChunk EXCEPT !.player_list = <<Player("p2", Outside)>>],
     [ZeroChunk EXCEPT !.server_ip = s, !.data = "new chunk", !.is_dirty = TRUE,
                       !.player_list = <<Player("p1", Outside)>>,
                       !.cells = <<[cube_id |-> "k1", x |-> 0, z |-> 0,
                                    height |-> 0, color |-> 0]>>]}

\* merge() on another game server sends its MERGE to s
PeerMerge(s, c, ch) ==
    /\ ninj < MaxPeer
    /\ MergeDatagram(Outside, s, c, ch) \notin net
    /\ net' = net \cup {MergeDatagram(Outside, s, c, ch)}
    /\ ninj' = ninj + 1
    /\ last' = LastPeer("MERGE_SENT", s, c, ZeroResponse, Outside)
    /\ UNCHANGED <<srv, cen, nreq>>

\* central's handlePeerChunk sends FROM_CENTRAL to the server its registry
\* names (central_server.go:176-200)
PeerChunkAsk(s, c, caller_ip, n) ==
    /\ ninj < MaxPeer
    /\ FromCentral(s, c, caller_ip, n) \notin net
    /\ net' = net \cup {FromCentral(s, c, caller_ip, n)}
    /\ ninj' = ninj + 1
    /\ last' = LastPeer("FROM_CENTRAL_SENT", s, c, ZeroResponse, caller_ip)
    /\ UNCHANGED <<srv, cen, nreq>>

ServerNext ==
    \/ \E c \in OpenChunkIDs, cube \in ColumnCube :
          HandleAddCubeHTTP(gameServerUDP, c, cube)
    \/ \E c \in OpenChunkIDs, id \in CubeIDs :
          HandleDltCubeHTTP(gameServerUDP, c, id)
    \/ \E s \in Servers, m \in net : MainAddCube(s, m)
    \/ \E s \in Servers, m \in net : MainDltCube(s, m)
    \/ \E x \in Positions, c \in ChunkIDs :
          nreq < MaxSend /\ HandleMovePlayer(gameServerUDP, "p1", x, 0, c)
    \/ nreq < MaxSend /\ HandleDeletePlayer(gameServerUDP, "p1")
    \/ \E c \in OpenChunkIDs, ch \in UpdateChunks :
          nreq < MaxSend /\ HandleUpdateData(gameServerUDP, c, ch)
    \/ \E p \in PlayerIDs, c \in OpenChunkIDs :
          /\ ServedLocally(zone_map[gameServerUDP], c, gameServerUDP)
          /\ HandleGetData(gameServerUDP, p, c)
    \/ \E c \in OpenChunkIDs, ch \in PeerChunks(gameServerUDP) :
          PeerMerge(gameServerUDP, c, ch)
    \/ \E c \in OpenChunkIDs, n \in 0..2, caller_ip \in Servers \ {gameServerUDP} :
          PeerChunkAsk(gameServerUDP, c, caller_ip, n)
    \/ \E s \in Servers, m \in net : HandleMergeChunk(s, m)
    \/ \E s \in Servers, m \in net : HandleCentralPeerReq(s, m)
    \/ \E s \in Servers : MergeAck(s)
    \/ \E s \in Servers : MergeTimeout(s)

ServerSpec == Init /\ [][ServerNext]_vars

(***************************************************************************)
(* Properties.                                                             *)
(***************************************************************************)

\* the game servers that regard themselves as owner of chunk c
SelfOwners(c) == {s \in Servers : ServedLocally(zone_map[s], c, s)}

\* the ids of the cubes in a cells list
CubeSet(cells) == {cells[i] : i \in 1..Len(cells)}

\* C1: in every reachable state outside a degraded (owner did not reply)
\* decision, for every chunk at most one game server has
\* zone_map[c].server_ip equal to its own address.
C1_AtMostOneSelfOwner ==
    \A c \in ChunkIDs : c \notin degraded => Cardinality(SelfOwners(c)) <= 1

\* C2: in every reachable state, if the registry maps chunk c to server X,
\* no server other than X regards itself as owner of c.
C2_RegistryOwnerOnly ==
    \A c \in DOMAIN zone :
        \A s \in Servers : s # zone[c] => ~ServedLocally(zone_map[s], c, s)

\* C3: once a handoff of chunk c from A to B is complete (A yielded on
\* FROM_CENTRAL and got B's ack of its MERGE, so B has processed it, and
\* central, on A's reply, rewrote the registry to B), B has an entry for c
\* whose cells contain every cube A's chunk had when it yielded, whatever B
\* held before.
C3_HandoffTransfersCells ==
    (/\ last.op = "PEER_CHUNK_REPLY"
     /\ last.res.message = last.s
     /\ last.res.chunk.server_ip = last.s
     /\ last.s \in Servers)
    => /\ Has(zone_map[last.s], last.c)
       /\ CubeSet(last.res.chunk.cells) \subseteq CubeSet(zone_map[last.s][last.c].cells)

\* C4: after ownership of chunk c moved from A to B, A's entry for c has
\* server_ip = B, both when A yielded in its FROM_CENTRAL handler and when
\* A's own GET_DATA learned from central that the owner is B # A while A
\* held an entry for c.
C4_FormerOwnerPointsToNewOwner ==
    (/\ last.op \in {"FROM_CENTRAL_YIELDED", "GET_DATA_MOVED"}
     /\ last.peer # last.s)
    => Get(zone_map[last.s], last.c).server_ip = last.peer

\* C5: a server that is not the owner of chunk c (its zone_map[c].server_ip
\* is not its own address) does not accept writes to c: an ADD_CUBE or
\* DLT_CUBE it receives for c leaves its zone_map[c].cells unchanged.
C5_NonOwnerRejectsWrites ==
    [][(/\ last'.op \in {"ADD_CUBE", "DLT_CUBE"}
        /\ ~ServedLocally(zone_map[last'.s], last'.c, last'.s))
       => Get(zone_map'[last'.s], last'.c).cells = Get(zone_map[last'.s], last'.c).cells]_vars

\* the exchange on connection k ends in this step on the owner's reply m
ExchangeEnds(k, m) ==
    /\ cth[k].st = "peer"
    /\ cth'[k].st \in {"decided", "done"}
    /\ last'.op \in {"PEER_CHUNK_REPLY", "PEER_CHUNK_FALLBACK"}
    /\ m.type = "PEER_REPLY"
    /\ m.from = cth[k].owner
    /\ m \notin net'

\* C6: when a PEER_CHUNK exchange finds the owner's player count equal to
\* the caller's, the current owner keeps the chunk: the registry entry is
\* unchanged and the owner's zone_map[c].server_ip is still the owner.
C6_EqualCountsKeepOwner ==
    [][\A k \in Conns, m \in net :
          (ExchangeEnds(k, m) /\ m.res.player_count = cth[k].player_count)
          => /\ zone' = zone
             /\ ServedLocally(zone_map'[cth[k].owner], cth[k].chunk_id, cth[k].owner)]_vars

\* connection k was told "no prior owner" for its chunk
ToldNoPriorOwner(k) ==
    cth[k].st = "done" /\ cth[k].status = 200 /\ ~cth[k].res.success

\* C7: registry reads and rewrites of concurrent PEER_CHUNK requests are
\* serialized: of two concurrent callers for a chunk absent from the
\* registry, exactly one is told "no prior owner" (success=false).
C7_OneFirstOwner ==
    \A j, k \in Conns :
        (/\ j # k
         /\ cth[j].chunk_id = cth[k].chunk_id
         /\ cth[j].caller_ip # cth[k].caller_ip)
        => ~(ToldNoPriorOwner(j) /\ ToldNoPriorOwner(k))

\* C8: every rewrite of the registry entry of a chunk sets it to its prior
\* value or to the caller_ip of the request being handled; no third value
\* appears.
C8_RegistryPriorOrCaller ==
    [][\A c \in DOMAIN zone' :
          \/ c \in DOMAIN zone /\ zone'[c] = zone[c]
          \/ zone'[c] = last'.s]_vars

\* a registry entry was rewritten from one server to another
C8_Witness ==
    /\ last.op = "PEER_CHUNK_DEGRADED"
    /\ zone[last.c] = last.s
    /\ \E k \in Conns :
          /\ cth[k].st = "done"
          /\ cth[k].chunk_id = last.c
          /\ cth[k].caller_ip = last.s
          /\ cth[k].owner \notin {NoIP, last.s}

\* C9: PEER_CHUNK for a chunk absent from the registry records
\* registry[chunk] = caller_ip and replies success=false, and sends no
\* datagram to any game server: a request that found the chunk absent goes
\* on to write the entry, and a request that wrote it goes on to answer.
C9_AbsentInstallsCaller ==
    [][\A k \in Conns :
          /\ (cth[k].st = "lookup" /\ cth'[k].st # "lookup"
              /\ cth[k].chunk_id \notin DOMAIN zone)
             => cth'[k].st = "absent" /\ net' = net /\ zone' = zone
          /\ (cth[k].st = "absent" /\ cth'[k].st # "absent")
             => /\ cth'[k].st = "installed"
                /\ cth[k].chunk_id \in DOMAIN zone'
                /\ zone'[cth[k].chunk_id] = cth[k].caller_ip
                /\ net' = net
          /\ (cth[k].st = "installed" /\ cth'[k].st # "installed")
             => /\ cth'[k].st = "done"
                /\ cth'[k].status = 200
                /\ ~cth'[k].res.success
                /\ net' = net]_vars

\* C10: when the owner's reply carries callee_player_count strictly less
\* than caller_player_count, central rewrites registry[chunk] to caller_ip
\* and replies success=true with owner = caller_ip and the chunk the owner
\* returned.
C10_TransferToCaller ==
    [][\A k \in Conns, m \in net :
          (ExchangeEnds(k, m) /\ m.res.player_count < cth[k].player_count)
          => /\ cth[k].chunk_id \in DOMAIN zone'
             /\ zone'[cth[k].chunk_id] = cth[k].caller_ip
             /\ cth'[k].status = 200
             /\ cth'[k].res.success
             /\ cth'[k].res.message = cth[k].caller_ip
             /\ cth'[k].res.chunk = m.res.chunk]_vars

\* C11: when the owner's reply is decoded and carries callee_player_count
\* greater than or equal to caller_player_count, central leaves the registry
\* unchanged and replies with owner = the existing owner and chunk = the
\* chunk the owner returned.
C11_KeepReturnsOwnerChunk ==
    [][\A k \in Conns, m \in net :
          (/\ ExchangeEnds(k, m)
           /\ last'.op = "PEER_CHUNK_REPLY"
           /\ m.res.player_count >= cth[k].player_count)
          => /\ zone' = zone
             /\ cth'[k].status = 200
             /\ cth'[k].res.success
             /\ cth'[k].res.message = cth[k].owner
             /\ cth'[k].res.chunk = m.res.chunk]_vars

\* C12: when the owner's reply is not read before central's deadline,
\* central takes the degraded decision: with caller_player_count > 0 the
\* registry is rewritten to caller_ip and caller_ip is returned as owner;
\* otherwise the registry is unchanged and the existing owner is returned;
\* in both cases the reply has success=true.
C12_DegradedDecision ==
    [][\A k \in Conns :
          (cth[k].st = "peer" /\ cth'[k].st = "done" /\ net' = net)
          => /\ cth'[k].status = 200
             /\ cth'[k].res.success
             /\ IF cth[k].player_count > 0
                THEN /\ zone' = Put(zone, cth[k].chunk_id, cth[k].caller_ip)
                     /\ cth'[k].res.message = cth[k].caller_ip
                ELSE /\ zone' = zone
                     /\ cth'[k].res.message = cth[k].owner]_vars

\* the deadline passed on a request with no players: the registry still
\* names the owner, which is not the caller, and the reply names the owner
C12_Witness ==
    /\ last.op = "PEER_CHUNK_DEGRADED"
    /\ last.res.success
    /\ \E k \in Conns :
          /\ cth[k].st = "done"
          /\ cth[k].chunk_id = last.c
          /\ cth[k].caller_ip = last.s
          /\ cth[k].player_count = 0
          /\ cth[k].owner \notin {NoIP, last.s}
          /\ zone[last.c] = cth[k].owner
          /\ last.res.message = cth[k].owner

\* C13: when a game server's call to central fails during a GET_DATA miss
\* (central is gone, or it answers with an error status whose body is not a
\* Response), the server replies success=false with message "Failed to
\* reach central" and its zone_map, players and player_map are unchanged: it
\* neither creates the chunk nor declares itself owner.
C13_CentralFailureSurfaced ==
    [][\A s \in Servers :
          (/\ pc[s] = "central"
           /\ pc'[s] # "central"
           /\ (~central_up \/ cth[s].status # 200))
          => /\ zone_map'[s] = zone_map[s]
             /\ players'[s] = players[s]
             /\ player_map'[s] = player_map[s]
             /\ ~last'.res.success
             /\ last'.res.message = "Failed to reach central"]_vars

\* C14: when the acknowledgement of a MERGE does not arrive within its
\* deadline, the handler that sent the MERGE (a GET_DATA redirect branch or
\* the FROM_CENTRAL yield) still sends its own reply, with success=true, and
\* the server goes on serving requests.
C14_MergeTimeoutContinues ==
    [][\A s \in Servers :
          (/\ pc[s] = "merge"
           /\ pc'[s] # "merge"
           /\ [type |-> "MERGE_ACK", to |-> s] \notin net)
          => /\ pc'[s] = "idle"
             /\ last'.s = s
             /\ last'.res.success]_vars

\* C15: a FROM_CENTRAL request always produces a reply to central: for a
\* chunk absent from the receiver's zone_map the receiver computes
\* player_count = 0 and yields to the caller (its entry names the caller and
\* a MERGE goes to the caller), and the handler ends by replying with
\* player_count = 0.
C15_AbsentChunkReplies ==
    [][/\ \A s \in Servers, m \in net :
            (/\ m.type = "FROM_CENTRAL"
             /\ m.to = s
             /\ m \notin net'
             /\ ~Has(zone_map[s], m.chunk_id))
            => /\ Get(zone_map'[s], m.chunk_id).server_ip = m.caller_ip
               /\ \E mm \in net' : /\ mm.type = "MERGE"
                                   /\ mm.to = m.caller_ip
                                   /\ mm.chunk_id = m.chunk_id
       /\ \A s \in Servers :
            (/\ pc[s] = "merge"
             /\ ctx[s].kind = "from_central"
             /\ ~ctx[s].have
             /\ pc'[s] # "merge")
            => /\ pc'[s] = "idle"
               /\ last'.s = s
               /\ last'.res.success
               /\ last'.res.player_count = 0]_vars

\* C16: a server handling FROM_CENTRAL with my_count =
\* len(chunk.player_list) <= caller_player_count yields: afterwards its
\* stored chunk has server_ip = caller_ip, every player in its stored
\* player_list has server_ip = caller_ip, is_dirty is true, a MERGE carrying
\* the chunk has been sent to caller_ip, and the reply carries the chunk and
\* player_count = my_count.
C16_YieldRewritesChunk ==
    LET stored == Get(zone_map[last.s], last.c)
    IN /\ last.op = "FROM_CENTRAL_YIELD"
          => /\ stored.server_ip = last.peer
             /\ \A i \in 1..Len(stored.player_list) :
                   stored.player_list[i].server_ip = last.peer
             /\ stored.is_dirty
             /\ MergeDatagram(last.s, last.peer, last.c, stored) \in net
       /\ last.op = "FROM_CENTRAL_YIELDED"
          => /\ last.res.chunk = stored
             /\ last.res.player_count = Len(stored.player_list)

\* C17: a server handling FROM_CENTRAL with my_count > caller_player_count
\* does not yield: its zone_map, players and player_map are unchanged, no
\* MERGE is sent, and the reply carries the chunk and player_count =
\* my_count.
C17_MoreLoadedOwnerKeeps ==
    [][\A s \in Servers, m \in net :
          (/\ m.type = "FROM_CENTRAL"
           /\ m.to = s
           /\ m \notin net'
           /\ Len(Get(zone_map[s], m.chunk_id).player_list) > m.player_count)
          => /\ zone_map'[s] = zone_map[s]
             /\ players'[s] = players[s]
             /\ player_map'[s] = player_map[s]
             /\ pc'[s] = "idle"
             /\ \A mm \in net' \ net : mm.type # "MERGE"
             /\ last'.s = s
             /\ last'.res.success
             /\ last'.res.chunk = Get(zone_map[s], m.chunk_id)
             /\ last'.res.player_count
                   = Len(Get(zone_map[s], m.chunk_id).player_list)]_vars

\* an owner with a player was asked by central on behalf of a caller with
\* fewer players, and has answered with its chunk, which it still owns
C17_Witness ==
    /\ last.op = "FROM_CENTRAL_KEEP"
    /\ last.peer \in Servers \ {last.s}
    /\ ServedLocally(zone_map[last.s], last.c, last.s)
    /\ last.res.player_count > 0
    /\ last.res.chunk = zone_map[last.s][last.c]
    /\ PeerReply(last.s, last.res) \subseteq net

\* C18: GET_DATA for a chunk the server holds with server_ip = self is
\* served locally: no call to central is made, zone_map is unchanged,
\* players[player.id] is set to the chunk id, and the reply is success=true
\* with the local chunk and message = self.
C18_OwnerServesLocally ==
    [][\A s \in Servers, c \in ChunkIDs :
          (/\ nreq' # nreq
           /\ last'.op \in {"GET_DATA", "GET_DATA_MISS", "GET_DATA_PANIC"}
           /\ last'.s = s
           /\ last'.c = c
           /\ Has(zone_map[s], c)
           /\ zone_map[s][c].server_ip = s)
          => /\ cth' = cth
             /\ pc'[s] = "idle"
             /\ zone_map' = zone_map
             /\ player_map' = player_map
             /\ \E p \in PlayerIDs : players'[s] = Put(players[s], p, c)
             /\ last'.res = Response(TRUE, zone_map[s][c], s, "", 0)]_vars

\* an owner has answered a GET_DATA from its own map: the player is
\* recorded in the chunk and the reply names the server itself
C18_Witness ==
    /\ last.op = "GET_DATA"
    /\ last.s \in Servers
    /\ Has(zone_map[last.s], last.c)
    /\ zone_map[last.s][last.c].server_ip = last.s
    /\ last.res.success
    /\ last.res.message = last.s
    /\ last.res.chunk = zone_map[last.s][last.c]
    /\ \E p \in DOMAIN players[last.s] : players[last.s][p] = last.c
    /\ \A k \in Conns : cth[k].st = "none"

\* C19: GET_DATA on a server for a chunk that central reports as having no
\* prior owner installs a fresh chunk with server_ip = self, cells = [] and
\* player_list = [the requesting player], and replies success=true with
\* that chunk and message = self.
C19_FirstContactInstallsFresh ==
    [][\A s \in Servers :
          (/\ pc[s] = "central"
           /\ pc'[s] # "central"
           /\ cth[s].st = "done"
           /\ cth[s].status = 200
           /\ ~cth[s].res.success)
          => LET c == ctx[s].chunk_id
                 fresh == [id_x |-> c[1], id_y |-> c[2], server_ip |-> s,
                           data |-> "new chunk",
                           player_list |-> <<ctx[s].player>>,
                           is_dirty |-> FALSE, cells |-> <<>>]
             IN /\ pc'[s] = "idle"
                /\ Has(zone_map'[s], c)
                /\ zone_map'[s][c] = fresh
                /\ last'.s = s
                /\ last'.c = c
                /\ last'.res = Response(TRUE, fresh, s, "", 0)]_vars

\* a server told "no prior owner" has installed the chunk with itself as
\* owner, no cells and its one player, and has replied with it
C19_Witness ==
    /\ last.op = "GET_DATA_NEW"
    /\ last.s \in Servers
    /\ zone[last.c] = last.s
    /\ Has(zone_map[last.s], last.c)
    /\ zone_map[last.s][last.c] = last.res.chunk
    /\ last.res.success
    /\ last.res.message = last.s
    /\ last.res.chunk.server_ip = last.s
    /\ last.res.chunk.cells = <<>>
    /\ Len(last.res.chunk.player_list) = 1
    /\ last.res.chunk.player_list[1].id \in DOMAIN players[last.s]

\* C20: whenever a GET_DATA handled by server S replies success=true with
\* message = S (S is named owner, also when central moved or returned
\* ownership to S), S.zone_map[c].server_ip = S holds right afterwards, so S
\* serves the next GET_DATA for c locally.
C20_NamedOwnerIsOwner ==
    (/\ last.op \in {"GET_DATA", "GET_DATA_NEW", "GET_DATA_OWNER",
                     "GET_DATA_MOVED", "GET_DATA_REDIRECT"}
     /\ last.s \in Servers
     /\ last.res.success
     /\ last.res.message = last.s)
    => ServedLocally(zone_map[last.s], last.c, last.s)

\* C21: if a GET_DATA for chunk c sent to server A is answered success=true
\* with message = B # A, the same GET_DATA sent to B next, with no other
\* request in between, is answered success=true with message = B: the
\* redirect ends after one hop.  Two steps carry it.  The GET_DATA that
\* reaches B right after the redirect is answered at once from B's map when
\* B's entry names B; otherwise (the entry was overwritten by an UPDATE_DATA)
\* B asks central while the registry names B.  And a server that central
\* asked about itself answers its GET_DATA with message = itself.
C21_RedirectOneHop ==
    [][/\ (/\ last.op \in {"GET_DATA_MOVED", "GET_DATA_REDIRECT"}
           /\ last.res.success
           /\ last.res.message \in Servers \ {last.s}
           /\ nreq' # nreq
           /\ last'.op \in {"GET_DATA", "GET_DATA_MISS", "GET_DATA_PANIC"}
           /\ last'.s = last.res.message
           /\ last'.c = last.c)
          => IF Get(zone_map[last'.s], last'.c).server_ip = last'.s
             THEN /\ last'.op = "GET_DATA"
                  /\ last'.res.success
                  /\ last'.res.message = last.res.message
             ELSE /\ last'.op = "GET_DATA_MISS"
                  /\ Has(zone, last'.c)
                  /\ zone[last'.c] = last'.s
       /\ \A s \in Servers :
             (/\ pc[s] = "central"
              /\ pc'[s] # "central"
              /\ cth[s].st = "done"
              /\ cth[s].status = 200
              /\ cth[s].owner = s)
             => /\ last'.op = "GET_DATA_OWNER"
                /\ last'.s = s
                /\ last'.res.success
                /\ last'.res.message = s]_vars

\* the owner B has answered a GET_DATA with message = B while the other
\* server holds the entry its redirect to B left behind and B's chunk lists
\* the player that server sent over in its MERGE
C21_Witness ==
    /\ last.op = "GET_DATA"
    /\ last.res.success
    /\ last.res.message = last.s
    /\ Has(zone, last.c)
    /\ zone[last.c] = last.s
    /\ \E a \in Servers \ {last.s} :
          /\ Has(zone_map[a], last.c)
          /\ zone_map[a][last.c] = ZeroChunk
          /\ \E i \in 1..Len(last.res.chunk.player_list) :
                last.res.chunk.player_list[i].server_ip = a

\* C22: a MERGE datagram taken by a server without an entry for the chunk
\* installs the incoming chunk as it is; taken by a server with an entry, it
\* appends the incoming player_list to the stored one and leaves the stored
\* cells, server_ip and data as they were; in both cases the reply is
\* success=true.
C22_MergeInstallsOrAppends ==
    [][\A s \in Servers, m \in net :
          (/\ m.type = "MERGE"
           /\ m.to = s
           /\ m \notin net')
          => LET c == m.chunk_id
                 old == Get(zone_map[s], c)
             IN /\ last'.op = "MERGE"
                /\ last'.s = s
                /\ last'.res.success
                /\ Has(zone_map'[s], c)
                /\ IF ~Has(zone_map[s], c)
                   THEN zone_map'[s][c] = m.chunk
                   ELSE /\ zone_map'[s][c].player_list
                              = old.player_list \o m.chunk.player_list
                        /\ zone_map'[s][c].cells = old.cells
                        /\ zone_map'[s][c].server_ip = old.server_ip
                        /\ zone_map'[s][c].data = old.data]_vars

\* the cells of a list that carry the given cube id
CellsWithID(cells, cube_id) == {i \in 1..Len(cells) : cells[i].cube_id = cube_id}

\* C23: after a server that owns the chunk has handled an ADD_CUBE, the chunk
\* it holds (the one a GET_DATA sent to it returns) has the added cube in its
\* cells exactly once and has is_dirty = true.
C23_AddedCubeOnce ==
    [][\A s \in Servers, m \in net :
          (/\ m.type = "ADD_CUBE"
           /\ m.to = s
           /\ m \notin net'
           /\ ServedLocally(zone_map[s], m.chunk_id, s))
          => LET chunk == zone_map'[s][m.chunk_id]
             IN /\ last'.res.success
                /\ Cardinality({i \in 1..Len(chunk.cells) :
                                   chunk.cells[i] = m.cube}) = 1
                /\ chunk.is_dirty]_vars

\* C24: after a server has handled a DLT_CUBE for a cube id that was in the
\* chunk, the chunk it holds (the one a GET_DATA sent to it returns) has no
\* cube with that id.
C24_DeletedCubeGone ==
    [][\A s \in Servers, m \in net :
          (/\ m.type = "DLT_CUBE"
           /\ m.to = s
           /\ m \notin net'
           /\ CellsWithID(Get(zone_map[s], m.chunk_id).cells, m.cube_id) # {})
          => CellsWithID(zone_map'[s][m.chunk_id].cells, m.cube_id) = {}]_vars

\* C25: in every chunk a server holds, no two cells have the same cube id.
C25_CubeIDsDistinct ==
    \A s \in Servers : \A c \in DOMAIN zone_map[s] :
       \A id \in CubeIDs : Cardinality(CellsWithID(zone_map[s][c].cells, id)) <= 1

\* the heights of the cells of a list that stand in column (x, z), with
\* their positions in the list
ColumnCells(cells, x, z) ==
    {i \in 1..Len(cells) : cells[i].x = x /\ cells[i].z = z}

\* C26: in every chunk a server holds, the cubes of each column have the
\* heights 0..k-1, each once, k being the number of cubes in the column.
C26_HeightsDensePrefix ==
    \A s \in Servers : \A c \in DOMAIN zone_map[s] :
       LET cells == zone_map[s][c].cells
       IN \A j \in 1..Len(cells) :
             LET col == ColumnCells(cells, cells[j].x, cells[j].z)
             IN {cells[i].height : i \in col} = 0..(Cardinality(col) - 1)

\* C27: ADD_CUBE datagrams waiting together on a server's socket are handled
\* one at a time: the handler that runs appends its cube behind the cells the
\* handlers before it left, and the datagrams still waiting stay on the
\* socket.  After two concurrent ADD_CUBEs the cells therefore hold both
\* cubes, in the order in which the handlers ran.
C27_AddCubesLinearize ==
    [][\A s \in Servers, m \in net :
          (/\ m.type = "ADD_CUBE"
           /\ m.to = s
           /\ m \notin net')
          => /\ zone_map'[s][m.chunk_id].cells
                   = Append(Get(zone_map[s], m.chunk_id).cells, m.cube)
             /\ \A m2 \in net \ {m} : m2.type = "ADD_CUBE" => m2 \in net']_vars

\* the owner has handled one of two ADD_CUBEs that were in flight together,
\* behind a cube already in the chunk; the other is still waiting
C27_Witness ==
    /\ last.op = "ADD_CUBE"
    /\ ServedLocally(zone_map[last.s], last.c, last.s)
    /\ Len(zone_map[last.s][last.c].cells) = 2
    /\ \E m \in net :
          /\ m.type = "ADD_CUBE"
          /\ m.to = last.s
          /\ m.chunk_id = last.c
          /\ m.cube # zone_map[last.s][last.c].cells[2]

\* the players a server records as being in chunk c (its `players` map)
Residents(s, c) == {p \in DOMAIN players[s] : players[s][p] = c}

\* C28: the player_count in a server's reply to FROM_CENTRAL is the number of
\* distinct players the server records as being in the chunk at that time:
\* a player deleted by DLT_PLAYER or moved to another chunk by MOVE_PLAYER
\* is not counted, and no player is counted twice.
C28_CountIsResidents ==
    [][\A s \in Servers, m \in net :
          (/\ m.type = "FROM_CENTRAL"
           /\ m.to = s
           /\ m \notin net')
          => LET res == IF pc'[s] = "merge" THEN ctx'[s].res ELSE last'.res
             IN res.player_count = Cardinality(Residents(s, m.chunk_id))]_vars

\* the chunk a position lies in (App.jsx getChunkIdFromPosition, player_1.go)
getChunkIdFromPosition(x, y) == <<x \div chunkSize, y \div chunkSize>>

\* C29: when a server accepts a MOVE_PLAYER, the chunk id it records for the
\* player is (floor(pos_x/32), floor(pos_y/32)) of the position it records,
\* and zone_map is left as it was.
C29_MoveRecordsChunkOfPosition ==
    [][(last'.op = "MOVE_PLAYER" /\ last'.res.success)
       => /\ \A p \in DOMAIN player_map'[last'.s] :
                (\/ ~Has(player_map[last'.s], p)
                 \/ player_map'[last'.s][p] # player_map[last'.s][p]
                 \/ ~Has(players[last'.s], p)
                 \/ players'[last'.s][p] # players[last'.s][p])
                => players'[last'.s][p]
                      = getChunkIdFromPosition(player_map'[last'.s][p].pos_x,
                                               player_map'[last'.s][p].pos_y)
          /\ zone_map' = zone_map]_vars

\* C30: JOIN answers success=true with one of the configured servers, the
\* same one for the same player id as in the JOIN before it, and leaves the
\* registry as it was.
C30_JoinDeterministic ==
    [][last'.op = "JOIN"
       => /\ last'.res.success
          /\ \E i \in 1..Len(serversList) : last'.res.message = serversList[i]
          /\ zone' = zone
          /\ (last.op = "JOIN" /\ last.s = last'.s)
                => last'.res.message = last.res.message]_vars

\* central has been asked twice, both times to JOIN (no exchange was begun
\* and the registry is empty), and the second JOIN is the one of player "1"
C30_Witness ==
    /\ last.op = "JOIN"
    /\ last.s = "1"
    /\ last.res.message = serversList[1]
    /\ ninj = 2
    /\ zone = EmptyMap
    /\ \A k \in Conns : cth[k].st = "none"
    /\ net = {}

\* C31: a PEER_CHUNK for a chunk that has a registry entry (any call after
\* the first) is answered, and with an owner that is the registry value the
\* call read or the value it wrote: the caller.  A replay by the server the
\* registry named when the call read it names that server again and leaves
\* registry[chunk] equal to it.
C31_ReplayNamesSameOrLater ==
    [][\A k \in Conns :
          (cth[k].st \in {"found", "peer", "decided"} /\ cth'[k].st = "done")
          => LET c == cth[k].chunk_id
                 caller_ip == cth[k].caller_ip
                 owner == cth'[k].res.message
             IN /\ cth'[k].status = 200
                /\ cth'[k].res.success
                /\ owner \in {cth[k].owner, caller_ip}
                /\ (cth[k].owner = caller_ip)
                      => owner = caller_ip /\ zone'[c] = caller_ip]_vars

\* C32: a GET_DATA on a server without an entry for the chunk, central naming
\* another server as owner, sends that owner a MERGE whose chunk has the
\* requesting player as its whole player_list, replies success=true with
\* message = owner, and leaves the server's zone_map without an entry for
\* the chunk.
C32_RedirectInstallsNothing ==
    [][\A s \in Servers :
          /\ (last'.op = "GET_DATA_MERGE" /\ last'.s = s /\ ~ctx'[s].have)
             => \E m \in net' \ net :
                   /\ m.type = "MERGE"
                   /\ m.to = last'.peer
                   /\ m.chunk_id = last'.c
                   /\ m.chunk.player_list = <<ctx[s].player>>
          /\ (last'.op = "GET_DATA_REDIRECT" /\ last'.s = s)
             => /\ last'.res.success
                /\ last'.res.message = last'.peer
                /\ last'.peer # s
                /\ ~Has(zone_map'[s], last'.c)]_vars

\* C33: a server's zone_map gains an entry only in a GET_DATA that central
\* answered with "no prior owner" or with the server itself as owner, or in
\* a MERGE; ADD_CUBE, DLT_CUBE and FROM_CENTRAL for a chunk the server has
\* no entry for create none, and no entry is removed while the process runs.
C33_EntriesOnlyByGetDataOrMerge ==
    [][\A s \in Servers :
          pc'[s] # "crashed"
          => /\ DOMAIN zone_map[s] \subseteq DOMAIN zone_map'[s]
             /\ DOMAIN zone_map'[s] # DOMAIN zone_map[s]
                   => /\ last'.s = s
                      /\ last'.op \in {"GET_DATA_NEW", "GET_DATA_OWNER", "MERGE"}]_vars

\* how often a cube occurs in a cells list
CountIn(cells, cube) == Cardinality({i \in 1..Len(cells) : cells[i] = cube})

\* C34: a DLT_CUBE removes exactly one cube with the given id and keeps
\* every other cube of the chunk, each as often as before (the order may
\* change); for an id that is not in the chunk the cells stay as they are.
\* In both cases is_dirty becomes true and the reply is success=true.
C34_DltCubeRemovesOne ==
    [][\A s \in Servers, m \in net :
          (/\ m.type = "DLT_CUBE"
           /\ m.to = s
           /\ m \notin net')
          => LET old == Get(zone_map[s], m.chunk_id).cells
                 new == zone_map'[s][m.chunk_id].cells
             IN /\ last'.res.success
                /\ zone_map'[s][m.chunk_id].is_dirty
                /\ IF CellsWithID(old, m.cube_id) = {}
                   THEN new = old
                   ELSE \E i \in CellsWithID(old, m.cube_id) :
                           \A cube \in CubeSet(old) \cup CubeSet(new) :
                              CountIn(new, cube)
                                 = CountIn(old, cube)
                                      - (IF cube = old[i] THEN 1 ELSE 0)]_vars

\* the chunk yielded to the server came with cube k1; k2 was added behind it
\* and k1 deleted, which moved k2 into its place
C34_Witness ==
    /\ last.op = "DLT_CUBE"
    /\ ServedLocally(zone_map[last.s], last.c, last.s)
    /\ Len(zone_map[last.s][last.c].cells) = 1
    /\ zone_map[last.s][last.c].cells[1].cube_id = "k2"
    /\ nreq = 2

\* no datagram was lost and no process has ended so far: central has read
\* every reply it waited for, and every game server and central are running
NoLossNoCrash ==
    /\ degraded = {}
    /\ central_up
    /\ \A s \in Servers : pc[s] # "crashed"

\* C35: in a run without datagram loss and without a crash, whenever central
\* waits for the reply to a FROM_CENTRAL the registry owner is able to give
\* it before the deadline: the owner is not the calling server itself, whose
\* loop stays inside http.Post until central has answered that very call.
C35_OwnerCanAnswer ==
    NoLossNoCrash
    => \A s \in Servers :
          (cth[s].st = "peer" /\ pc[s] = "central") => cth[s].owner # s

\* C36: in a run without datagram loss and without a crash, an owner that
\* yields inside its FROM_CENTRAL handler is never waiting for the MERGE ack
\* of a caller whose loop is inside http.Post, waiting for central, which
\* waits for this owner's reply.
C36_NoCircularWait ==
    NoLossNoCrash
    => \A s \in Servers :
          (pc[s] = "merge" /\ ctx[s].kind = "from_central")
          => ~(/\ ctx[s].peer \in Servers
               /\ pc[ctx[s].peer] = "central"
               /\ cth[ctx[s].peer].st = "peer"
               /\ cth[ctx[s].peer].owner = s)

\* C37: a GET_DATA reply with message = the replying server carries every
\* cube that a server regarding itself as owner of the chunk held just
\* before (cubes added there by ADD_CUBE and not deleted since).
C37_OwnerCubesSurvive ==
    [][(/\ last'.op \in {"GET_DATA", "GET_DATA_NEW", "GET_DATA_OWNER"}
        /\ last'.res.success
        /\ last'.res.message = last'.s)
       => \A s \in SelfOwners(last'.c) :
             CubeSet(zone_map[s][last'.c].cells)
                \subseteq CubeSet(last'.res.chunk.cells)]_vars

\* C38: the player ids of a chunk's player_list are pairwise distinct.
PlayerIDsOf(player_list) ==
    {player_list[i].id : i \in 1..Len(player_list)}

C38_PlayerIDsDistinct ==
    \A s \in Servers : \A c \in DOMAIN zone_map[s] :
        Cardinality(PlayerIDsOf(zone_map[s][c].player_list))
            = Len(zone_map[s][c].player_list)

\* C39: when no exchange has timed out before (so the reply central reads
\* is the owner's answer to this exchange) and central rewrites the registry
\* to the caller, the owner has yielded: its entry names the caller.
C39_TransferOnlyAfterYield ==
    [][\A k \in Conns :
          (/\ NoLossNoCrash
           /\ cth[k].st = "peer"
           /\ cth'[k].st \in {"decided", "done"}
           /\ last'.op \in {"PEER_CHUNK_REPLY", "PEER_CHUNK_FALLBACK"}
           /\ cth[k].owner # cth[k].caller_ip
           /\ zone'[cth[k].chunk_id] = cth[k].caller_ip)
          => /\ cth[k].owner \in Servers
             /\ Has(zone_map[cth[k].owner], cth[k].chunk_id)
             /\ zone_map[cth[k].owner][cth[k].chunk_id].server_ip
                   = cth[k].caller_ip]_vars

====
